---- MODULE Spec2Model ----
(***************************************************************************)
(* A model of the pygon result/error library (src/types/result_types.py)   *)
(* and of the user service built on it (src/examples/user_service.py).     *)
(*                                                                         *)
(* Python values are modelled as follows.                                  *)
(*   - an input string (name, email) is a sequence of one-character        *)
(*     strings, so that strip(), lower(), len() and "@" in s are computed; *)
(*   - a string the code only passes along or builds by concatenation (an  *)
(*     error message, a category, a label) is a TLA+ string, joined by \o; *)
(*   - a dict is the sequence of its entries [k, v] in insertion order;    *)
(*   - a value stored in a dict is tagged by its Python type (PyStr,      *)
(*     PyTxt, PyInt, PyBool, PyList);                                      *)
(*   - None is the record None; a tuple is a TLA+ tuple.                   *)
(*                                                                         *)
(* Spec, SpecObjects and SpecRender describe the service functions, the    *)
(* construction of errors and the rendering of one error as they are       *)
(* written; SpecModule describes a program that imports user_service.py    *)
(* and calls its functions.                                                *)
(***************************************************************************)
EXTENDS Integers, Sequences, FiniteSets, TLC

VARIABLES
    call,     \* the service call in progress: its function, inputs and result
    heap,     \* the dict objects the caller holds, by object id (1..Len(heap))
    objs,     \* the PygonError objects the caller has constructed
    born,     \* for each of objs, its field contents when it was constructed
    clock,    \* the wall clock datetime.now() reads
    module    \* the interpreter's progress through user_service.py

vars == <<call, heap, objs, born, clock, module>>

---------------------------------------------------------------------------
(* Bounds of the model *)

\* the longest input string enumerated character by character
MaxLen == 2
\* how far around the name length limit the long names reach
PadSlack == 1
\* the longest user list searched
MaxUsers == 2
\* the last clock reading
MaxClock == 1
\* the most objects (dicts and PygonErrors together) the caller creates
MaxObjects == 2

(* Program constants *)

\* user_service.py:110, len(name) > 50
MaxNameLen == 50

---------------------------------------------------------------------------
(* Python values *)

None == [none |-> TRUE]

PyStr(s) == [str |-> s]
PyTxt(cs) == [chars |-> cs]
PyInt(n) == [int |-> n]
PyBool(b) == [bool |-> b]
PyList(l) == [list |-> l]

\* one entry of a dict
Entry(key, val) == [k |-> key, v |-> val]

\* {}
EmptyDict == <<>>

Range(s) == {s[i] : i \in 1..Len(s)}

Keys(d) == {d[i].k : i \in 1..Len(d)}

\* d[key] = val: replaces the value in place, or appends a new entry
DictSet(d, key, val) ==
    IF key \in Keys(d)
    THEN [i \in 1..Len(d) |-> IF d[i].k = key THEN Entry(key, val) ELSE d[i]]
    ELSE Append(d, Entry(key, val))

---------------------------------------------------------------------------
(* Python strings *)

Chars == {"a", "A", "@", " "}

\* str.isspace() of one character
IsSpace(c) == c = " "

\* str.lower() of one character
LowerChar(c) == IF c = "A" THEN "a" ELSE c

\* s.lower()
Lower(s) == [i \in 1..Len(s) |-> LowerChar(s[i])]

RECURSIVE LStrip(_)
LStrip(s) ==
    IF s # <<>> /\ IsSpace(Head(s)) THEN LStrip(Tail(s)) ELSE s

RECURSIVE RStrip(_)
RStrip(s) ==
    IF s # <<>> /\ IsSpace(s[Len(s)]) THEN RStrip(SubSeq(s, 1, Len(s) - 1)) ELSE s

\* s.strip()
Strip(s) == RStrip(LStrip(s))

\* "@" in s
HasAt(s) == \E i \in 1..Len(s) : s[i] = "@"

\* not s, for a string
IsEmpty(s) == Len(s) = 0

\* repr(s), for a string with no quote, backslash or control character
Repr(s) == <<"'">> \o s \o <<"'">>

\* sep.join(parts), for TLA+ strings
RECURSIVE Join(_, _)
Join(sep, parts) ==
    IF parts = <<>> THEN ""
    ELSE IF Len(parts) = 1 THEN parts[1]
    ELSE parts[1] \o sep \o Join(sep, Tail(parts))

\* the strings of at most n characters
Strs(n) == UNION {[1..k -> Chars] : k \in 0..n}

\* c * n
Rep(c, n) == [i \in 1..n |-> c]

---------------------------------------------------------------------------
(* Objects: a dict is held either as an object of its own, Dict(entries),   *)
(* which nothing else refers to, or as a reference Ref(id) to a dict object *)
(* of the caller's heap, which the caller can still change.                 *)

Dict(entries) == [dict |-> entries]
Ref(id) == [ref |-> id]

IsRef(x) == "ref" \in DOMAIN x

\* the entries of a dict as they are now
Contents(x) == IF IsRef(x) THEN heap[x.ref] ELSE x.dict

\* x or {}: x itself (the same object) when x is a non-empty dict, else a new {}
OrEmptyDict(x) ==
    IF x # None /\ Contents(x) # EmptyDict THEN x ELSE Dict(EmptyDict)

\* the frame that called PygonError(...), as traceback.extract_stack()[-3] gives it
FrameValidation == "src/types/result_types.py:107"
FrameNotFound == "src/types/result_types.py:130"
FrameIo == "src/types/result_types.py:155"
FrameNetwork == "src/types/result_types.py:181"

\* the frames of the dataclass __init__ and of __post_init__ at line 43
FrameInit == "<string>:__init__"
FramePostInit == "src/types/result_types.py:43"

\* the end of the call stack when __post_init__ reads it: the frame that
\* called PygonError(...), then __init__, then __post_init__
StackTop(frame) == <<frame, FrameInit, FramePostInit>>

\* traceback.extract_stack()[-3]
CallingFrame(stack) == stack[Len(stack) - 2]

\* PygonError(...), called from `frame`, followed by __post_init__: an empty
\* source_location is replaced by the calling frame; timestamp defaults to
\* datetime.now()
PygonError(error_type, message, context, source_location, metadata, cause, now, frame) ==
    [error_type |-> error_type,
     message |-> message,
     context |-> context,
     timestamp |-> now,
     source_location |-> IF source_location = ""
                         THEN CallingFrame(StackTop(frame))
                         ELSE source_location,
     metadata |-> metadata,
     cause |-> cause]

create_validation_error(message, context, metadata, now) ==
    PygonError("validation_error", message, OrEmptyDict(context), "",
               OrEmptyDict(metadata), None, now, FrameValidation)

create_not_found_error(message, context, metadata, now) ==
    PygonError("not_found_error", message, OrEmptyDict(context), "",
               OrEmptyDict(metadata), None, now, FrameNotFound)

\* create_io_error without the cause
create_io_error_NoCause(message, cause, context, metadata, now) ==
    PygonError("io_error", message, OrEmptyDict(context), "",
               OrEmptyDict(metadata), None, now, FrameIo)

create_io_error(message, cause, context, metadata, now) ==
    PygonError("io_error", message, OrEmptyDict(context), "",
               OrEmptyDict(metadata), cause, now, FrameIo)

create_network_error(message, cause, context, metadata, now) ==
    PygonError("network_error", message, OrEmptyDict(context), "",
               OrEmptyDict(metadata), cause, now, FrameNetwork)

\* to_string with the creation site appended
to_string_WithSource(e) ==
    e.error_type \o ": " \o e.message \o " (" \o e.source_location \o ")"

\* PygonError.to_string
to_string(e) == e.error_type \o ": " \o e.message

\* PygonError.__str__
__str__(e) == to_string(e)

\* repr(v) of a value held in a dict
RECURSIVE ReprValue(_)
ReprValue(v) ==
    IF "str" \in DOMAIN v THEN "'" \o v.str \o "'"
    ELSE IF "chars" \in DOMAIN v THEN "'" \o Join("", v.chars) \o "'"
    ELSE IF "int" \in DOMAIN v THEN ToString(v.int)
    ELSE IF "bool" \in DOMAIN v THEN (IF v.bool THEN "True" ELSE "False")
    ELSE "[" \o Join(", ", [i \in 1..Len(v.list) |-> ReprValue(v.list[i])]) \o "]"

\* f"{d}" of a dict: its entries in insertion order
ReprDict(d) ==
    "{" \o Join(", ", [i \in 1..Len(d) |->
                          "'" \o d[i].k \o "': " \o ReprValue(d[i].v)])
        \o "}"

\* the list `details` with the cause ahead of the context
DetailSegments_CauseFirst(e) ==
    <<"Error: " \o e.error_type,
      "Message: " \o e.message,
      "Timestamp: " \o ToString(e.timestamp),
      "Source: " \o e.source_location>>
    \o (IF e.cause # None THEN <<"Cause: " \o e.cause.text>> ELSE <<>>)
    \o (IF Contents(e.context) # EmptyDict
        THEN <<"Context: " \o ReprDict(Contents(e.context))>> ELSE <<>>)
    \o (IF Contents(e.metadata) # EmptyDict
        THEN <<"Metadata: " \o ReprDict(Contents(e.metadata))>> ELSE <<>>)

\* the list `details` of to_detailed_string; an exception object is truthy
DetailSegments(e) ==
    <<"Error: " \o e.error_type,
      "Message: " \o e.message,
      "Timestamp: " \o ToString(e.timestamp),
      "Source: " \o e.source_location>>
    \o (IF Contents(e.context) # EmptyDict
        THEN <<"Context: " \o ReprDict(Contents(e.context))>> ELSE <<>>)
    \o (IF Contents(e.metadata) # EmptyDict
        THEN <<"Metadata: " \o ReprDict(Contents(e.metadata))>> ELSE <<>>)
    \o (IF e.cause # None THEN <<"Cause: " \o e.cause.text>> ELSE <<>>)

\* PygonError.to_detailed_string
to_detailed_string(e) == Join(" | ", DetailSegments(e))

---------------------------------------------------------------------------
(* The user service. Every function takes the clock reading `now` that the  *)
(* errors it constructs record as their timestamp.                          *)

User(id, name, email) == [id |-> id, name |-> name, email |-> email]

\* the error of the required check of validate_email
EmailRequiredError(email, field_name, now) ==
    create_validation_error(
        "email is required",
        Dict(<<Entry("field_name", PyStr(field_name)),
               Entry("provided_value", PyTxt(email)),
               Entry("validation_step", PyStr("required_check"))>>),
        Dict(<<Entry("validation_rule", PyStr("non_empty")),
               Entry("expected_type", PyStr("non-empty string"))>>),
        now)

\* the format error built with the wrong named constructor
EmailFormatError_NotFound(email, field_name, now) ==
    create_not_found_error(
        "invalid email format",
        Dict(<<Entry("field_name", PyStr(field_name)),
               Entry("provided_value", PyTxt(email)),
               Entry("validation_step", PyStr("format_check"))>>),
        Dict(<<Entry("validation_rule", PyStr("contains_at_symbol")),
               Entry("expected_format", PyStr("user@domain.com")),
               Entry("provided_length", PyInt(Len(email)))>>),
        now)

\* the error of the format check of validate_email
EmailFormatError(email, field_name, now) ==
    create_validation_error(
        "invalid email format",
        Dict(<<Entry("field_name", PyStr(field_name)),
               Entry("provided_value", PyTxt(email)),
               Entry("validation_step", PyStr("format_check"))>>),
        Dict(<<Entry("validation_rule", PyStr("contains_at_symbol")),
               Entry("expected_format", PyStr("user@domain.com")),
               Entry("provided_length", PyInt(Len(email)))>>),
        now)

\* validate_email with "@" looked for after the first character only
validate_email_AtNotFirst(email, field_name, now) ==
    IF IsEmpty(email) THEN <<FALSE, EmailRequiredError(email, field_name, now)>>
    ELSE IF ~HasAt(Tail(email))
    THEN <<FALSE, EmailFormatError(email, field_name, now)>>
    ELSE <<TRUE, None>>

\* validate_email with its two checks in the other order
validate_email_FormatFirst(email, field_name, now) ==
    IF ~HasAt(email) THEN <<FALSE, EmailFormatError(email, field_name, now)>>
    ELSE IF IsEmpty(email)
    THEN <<FALSE, EmailRequiredError(email, field_name, now)>>
    ELSE <<TRUE, None>>

validate_email(email, field_name, now) ==
    IF IsEmpty(email) THEN <<FALSE, EmailRequiredError(email, field_name, now)>>
    ELSE IF ~HasAt(email) THEN <<FALSE, EmailFormatError(email, field_name, now)>>
    ELSE <<TRUE, None>>

\* validate_email_legacy with the category prefix left out of its strings
validate_email_legacy_NoPrefix(email) ==
    IF IsEmpty(email) THEN <<FALSE, PyStr("email is required")>>
    ELSE IF ~HasAt(email) THEN <<FALSE, PyStr("invalid email format")>>
    ELSE <<TRUE, None>>

\* a legacy error is a str where the slot may hold None: PyStr(text)
validate_email_legacy(email) ==
    IF IsEmpty(email)
    THEN <<FALSE, PyStr("validation_error: email is required")>>
    ELSE IF ~HasAt(email)
    THEN <<FALSE, PyStr("validation_error: invalid email format")>>
    ELSE <<TRUE, None>>

\* the four checks of validate_user_data, each the list it appends to errors
NameRequiredError(name, form_context, now) ==
    IF IsEmpty(Strip(name))
    THEN <<create_validation_error(
                "name is required",
                Dict(<<Entry("field_name", PyStr("name")),
                       Entry("form_context", PyStr(form_context)),
                       Entry("provided_value", PyTxt(Repr(name))),
                       Entry("validation_step", PyStr("required_check"))>>),
                Dict(<<Entry("validation_rule", PyStr("non_empty_after_strip")),
                       Entry("original_length", PyInt(Len(name))),
                       Entry("stripped_length", PyInt(Len(Strip(name))))>>),
                now)>>
    ELSE <<>>

NameLengthError(name, form_context, now) ==
    IF Len(name) > MaxNameLen
    THEN <<create_validation_error(
                "name must be 50 characters or less",
                Dict(<<Entry("field_name", PyStr("name")),
                       Entry("form_context", PyStr(form_context)),
                       Entry("provided_length", PyInt(Len(name))),
                       Entry("validation_step", PyStr("length_check"))>>),
                Dict(<<Entry("validation_rule", PyStr("max_length")),
                       Entry("max_allowed", PyInt(MaxNameLen)),
                       Entry("actual_length", PyInt(Len(name)))>>),
                now)>>
    ELSE <<>>

EmailError(email, form_context, now) ==
    IF IsEmpty(email)
    THEN <<create_validation_error(
                "email is required",
                Dict(<<Entry("field_name", PyStr("email")),
                       Entry("form_context", PyStr(form_context)),
                       Entry("provided_value", PyTxt(email)),
                       Entry("validation_step", PyStr("required_check"))>>),
                Dict(<<Entry("validation_rule", PyStr("non_empty")),
                       Entry("expected_type", PyStr("non-empty string"))>>),
                now)>>
    ELSE IF ~HasAt(email)
    THEN <<create_validation_error(
                "invalid email format",
                Dict(<<Entry("field_name", PyStr("email")),
                       Entry("form_context", PyStr(form_context)),
                       Entry("provided_value", PyTxt(email)),
                       Entry("validation_step", PyStr("format_check"))>>),
                Dict(<<Entry("validation_rule", PyStr("contains_at_symbol")),
                       Entry("expected_format", PyStr("user@domain.com")),
                       Entry("provided_length", PyInt(Len(email)))>>),
                now)>>
    ELSE <<>>

\* validate_user_data with the flag computed before the email checks ran
validate_user_data_EarlyFlag(name, email, form_context, now) ==
    LET early == NameRequiredError(name, form_context, now)
                 \o NameLengthError(name, form_context, now)
        errors == early \o EmailError(email, form_context, now)
    IN <<Len(early) = 0, errors>>

\* validate_user_data with the length check an elif of the required check
validate_user_data_ShortCircuit(name, email, form_context, now) ==
    LET required == NameRequiredError(name, form_context, now)
        errors == required
                  \o (IF required = <<>>
                      THEN NameLengthError(name, form_context, now) ELSE <<>>)
                  \o EmailError(email, form_context, now)
    IN <<Len(errors) = 0, errors>>

\* validate_user_data with the email checks before the name checks
validate_user_data_EmailFirst(name, email, form_context, now) ==
    LET errors == EmailError(email, form_context, now)
                  \o NameRequiredError(name, form_context, now)
                  \o NameLengthError(name, form_context, now)
    IN <<Len(errors) = 0, errors>>

validate_user_data(name, email, form_context, now) ==
    LET errors == NameRequiredError(name, form_context, now)
                  \o NameLengthError(name, form_context, now)
                  \o EmailError(email, form_context, now)
    IN <<Len(errors) = 0, errors>>

validate_user_data_legacy(name, email) ==
    LET errors ==
            (IF IsEmpty(Strip(name))
             THEN <<"validation_error: name is required">> ELSE <<>>)
            \o (IF Len(name) > MaxNameLen
                THEN <<"validation_error: name must be 50 characters or less">>
                ELSE <<>>)
            \o (IF IsEmpty(email) THEN <<"validation_error: email is required">>
                ELSE IF ~HasAt(email)
                THEN <<"validation_error: invalid email format">>
                ELSE <<>>)
    IN <<Len(errors) = 0, errors>>

\* [error.message for error in errors]
Messages(errors) == [i \in 1..Len(errors) |-> errors[i].message]

\* [err.to_string() for err in errors]
ToStrings(errors) == [i \in 1..Len(errors) |-> PyStr(to_string(errors[i]))]

\* the single error built from the first validation error only
UserCreationError_FirstOnly(name, email, context, validation_errors, now) ==
    create_validation_error(
        "User creation failed: " \o validation_errors[1].message,
        Dict(<<Entry("operation", PyStr("create_user")),
               Entry("context", PyStr(context)),
               Entry("provided_name", PyTxt(name)),
               Entry("provided_email", PyTxt(email)),
               Entry("validation_error_count", PyInt(1))>>),
        Dict(<<Entry("validation_errors",
                     PyList(<<PyStr(to_string(validation_errors[1]))>>)),
               Entry("operation_type", PyStr("user_creation"))>>),
        now)

\* the single error create_user converts the validation errors to
UserCreationError(name, email, context, validation_errors, now) ==
    create_validation_error(
        "User creation failed: " \o Join(", ", Messages(validation_errors)),
        Dict(<<Entry("operation", PyStr("create_user")),
               Entry("context", PyStr(context)),
               Entry("provided_name", PyTxt(name)),
               Entry("provided_email", PyTxt(email)),
               Entry("validation_error_count", PyInt(Len(validation_errors)))>>),
        Dict(<<Entry("validation_errors", PyList(ToStrings(validation_errors))),
               Entry("operation_type", PyStr("user_creation"))>>),
        now)

\* create_user that stores the email as given
create_user_KeepsCase(name, email, context, now) ==
    LET r == validate_user_data(name, email, context, now)
        is_valid == r[1]
        validation_errors == r[2]
    IN IF ~is_valid
       THEN <<None, UserCreationError(name, email, context, validation_errors, now)>>
       ELSE <<User(1, Strip(name), email), None>>

create_user(name, email, context, now) ==
    LET r == validate_user_data(name, email, context, now)
        is_valid == r[1]
        validation_errors == r[2]
    IN IF ~is_valid
       THEN <<None, UserCreationError(name, email, context, validation_errors, now)>>
       ELSE <<User(1, Strip(name), Lower(email)), None>>

create_user_legacy(name, email) ==
    LET r == validate_user_data_legacy(name, email)
        is_valid == r[1]
        errors == r[2]
    IN IF ~is_valid
       THEN <<None, PyStr("validation_error: " \o Join(", ", errors))>>
       ELSE <<User(1, Strip(name), Lower(email)), None>>

\* for user in users: if user.email == normalized_email: return user
RECURSIVE FirstMatch(_, _)
FirstMatch(users, normalized_email) ==
    IF users = <<>> THEN None
    ELSE IF Head(users).email = normalized_email THEN Head(users)
    ELSE FirstMatch(Tail(users), normalized_email)

\* [user.email for user in users]
AvailableEmails(users) == [i \in 1..Len(users) |-> PyTxt(users[i].email)]

\* the not-found error with the available emails listed last user first
UserNotFoundError_Reversed(users, email, search_context, now) ==
    create_not_found_error(
        "user not found",
        Dict(<<Entry("operation", PyStr("find_user_by_email")),
               Entry("search_context", PyStr(search_context)),
               Entry("searched_email", PyTxt(email)),
               Entry("normalized_email", PyTxt(Lower(email))),
               Entry("total_users_searched", PyInt(Len(users)))>>),
        Dict(<<Entry("available_emails",
                     PyList([i \in 1..Len(users) |->
                                PyTxt(users[Len(users) + 1 - i].email)])),
               Entry("search_method", PyStr("email_lookup")),
               Entry("case_sensitive", PyBool(FALSE))>>),
        now)

\* the error find_user_by_email builds when the loop ends without a match
UserNotFoundError(users, email, search_context, now) ==
    create_not_found_error(
        "user not found",
        Dict(<<Entry("operation", PyStr("find_user_by_email")),
               Entry("search_context", PyStr(search_context)),
               Entry("searched_email", PyTxt(email)),
               Entry("normalized_email", PyTxt(Lower(email))),
               Entry("total_users_searched", PyInt(Len(users)))>>),
        Dict(<<Entry("available_emails", PyList(AvailableEmails(users))),
               Entry("search_method", PyStr("email_lookup")),
               Entry("case_sensitive", PyBool(FALSE))>>),
        now)

\* find_user_by_email that falls off the loop without building an error
find_user_by_email_NoError(users, email, search_context, now) ==
    LET v == validate_email(email, "search_email", now)
        validation_error == v[2]
        found == FirstMatch(users, Lower(email))
    IN IF validation_error # None THEN <<None, validation_error>>
       ELSE <<found, None>>

\* find_user_by_email that searches without validating the email
find_user_by_email_NoValidation(users, email, search_context, now) ==
    LET found == FirstMatch(users, Lower(email))
    IN IF found # None THEN <<found, None>>
       ELSE <<None, UserNotFoundError(users, email, search_context, now)>>

\* find_user_by_email that compares with the email as given
find_user_by_email_RawCompare(users, email, search_context, now) ==
    LET v == validate_email(email, "search_email", now)
        validation_error == v[2]
        found == FirstMatch(users, email)
    IN IF validation_error # None THEN <<None, validation_error>>
       ELSE IF found # None THEN <<found, None>>
       ELSE <<None, UserNotFoundError(users, email, search_context, now)>>

find_user_by_email(users, email, search_context, now) ==
    LET v == validate_email(email, "search_email", now)
        validation_error == v[2]
        normalized_email == Lower(email)
        found == FirstMatch(users, normalized_email)
    IN \* a PygonError is always truthy: it defines no __bool__ or __len__
       IF validation_error # None THEN <<None, validation_error>>
       ELSE IF found # None THEN <<found, None>>
       ELSE <<None, UserNotFoundError(users, email, search_context, now)>>

\* if x: for x a str or None
StrTruthy(x) == x # None /\ x.str # ""

find_user_by_email_legacy(users, email) ==
    LET v == validate_email_legacy(email)
        validation_error == v[2]
        normalized_email == Lower(email)
        found == FirstMatch(users, normalized_email)
    IN IF StrTruthy(validation_error) THEN <<None, validation_error>>
       ELSE IF found # None THEN <<found, None>>
       ELSE <<None, PyStr("not_found_error: user not found")>>

---------------------------------------------------------------------------
(* The inputs the caller draws from *)

Emails == Strs(MaxLen)

\* short names, names of all letters or all blanks around the length limit,
\* and names of letters after one blank around it
Names ==
    Strs(MaxLen)
    \cup {Rep(c, n) : c \in {"a", " "},
                      n \in (MaxNameLen - PadSlack)..(MaxNameLen + PadSlack)}
    \cup {<<" ">> \o Rep("a", n) :
            n \in (MaxNameLen - PadSlack)..(MaxNameLen + PadSlack)}

\* field_name, form_context, context and search_context arguments
Labels == {"email", "admin"}

UserPool ==
    {User(i, <<"a">>, e) :
        i \in {1, 2}, e \in {<<"a", "@">>, <<"A", "@">>, <<"@">>}}

UserLists == UNION {[1..k -> UserPool] : k \in 0..MaxUsers}

\* what the caller passes as message, cause and dict literal to a constructor
MessageArgs == {"boom", ""}
SourceLocationArgs == {"", "logs.py:1"}

\* the lines of the caller's program that construct errors
Sites == {"app.py:7", "app.py:9"}
CauseArgs == {None, [exception |-> "OSError", text |-> "disk full"]}
DictLiterals == {EmptyDict, <<Entry("field_name", PyStr("email"))>>}

\* a context or metadata argument: omitted (None) or one of the caller's dicts
DictArgs == {None} \cup {Ref(id) : id \in 1..Len(heap)}

---------------------------------------------------------------------------
(* The state machine *)

Idle == [fn |-> "idle"]

Init ==
    /\ call = Idle
    /\ heap = <<>>
    /\ objs = <<>>
    /\ born = <<>>
    /\ clock = 0
    /\ module = [pc |-> 1, names |-> {}, raised |-> ""]

\* time passes between two readings of datetime.now()
Tick ==
    /\ clock < MaxClock
    /\ clock' = clock + 1
    /\ UNCHANGED <<call, heap, objs, born, module>>

CallValidateEmail ==
    /\ call = Idle
    /\ \E email \in Emails, field_name \in Labels :
         call' = [fn |-> "validate_email", email |-> email,
                  field_name |-> field_name,
                  result |-> validate_email(email, field_name, clock)]
    /\ UNCHANGED <<heap, objs, born, clock, module>>

CallValidateEmailLegacy ==
    /\ call = Idle
    /\ \E email \in Emails :
         call' = [fn |-> "validate_email_legacy", email |-> email,
                  result |-> validate_email_legacy(email)]
    /\ UNCHANGED <<heap, objs, born, clock, module>>

CallValidateUserData ==
    /\ call = Idle
    /\ \E name \in Names, email \in Emails, form_context \in Labels :
         call' = [fn |-> "validate_user_data", name |-> name, email |-> email,
                  context |-> form_context,
                  result |-> validate_user_data(name, email, form_context, clock)]
    /\ UNCHANGED <<heap, objs, born, clock, module>>

CallValidateUserDataLegacy ==
    /\ call = Idle
    /\ \E name \in Names, email \in Emails :
         call' = [fn |-> "validate_user_data_legacy", name |-> name,
                  email |-> email,
                  result |-> validate_user_data_legacy(name, email)]
    /\ UNCHANGED <<heap, objs, born, clock, module>>

CallCreateUser ==
    /\ call = Idle
    /\ \E name \in Names, email \in Emails, context \in Labels :
         call' = [fn |-> "create_user", name |-> name, email |-> email,
                  context |-> context,
                  result |-> create_user(name, email, context, clock)]
    /\ UNCHANGED <<heap, objs, born, clock, module>>

CallCreateUserLegacy ==
    /\ call = Idle
    /\ \E name \in Names, email \in Emails :
         call' = [fn |-> "create_user_legacy", name |-> name, email |-> email,
                  result |-> create_user_legacy(name, email)]
    /\ UNCHANGED <<heap, objs, born, clock, module>>

CallFindUserByEmail ==
    /\ call = Idle
    /\ \E users \in UserLists, email \in Emails, search_context \in Labels :
         call' = [fn |-> "find_user_by_email", users |-> users, email |-> email,
                  context |-> search_context,
                  result |-> find_user_by_email(users, email, search_context, clock)]
    /\ UNCHANGED <<heap, objs, born, clock, module>>

CallFindUserByEmailLegacy ==
    /\ call = Idle
    /\ \E users \in UserLists, email \in Emails :
         call' = [fn |-> "find_user_by_email_legacy", users |-> users,
                  email |-> email,
                  result |-> find_user_by_email_legacy(users, email)]
    /\ UNCHANGED <<heap, objs, born, clock, module>>

\* the caller, holding the user create_user returned, looks the same email
\* up in a list that holds this user
CallFindCreatedUser ==
    /\ call.fn = "create_user"
    /\ call.result[1] # None
    /\ \E users \in UserLists, search_context \in Labels :
         /\ call.result[1] \in Range(users)
         /\ call' = [fn |-> "create_user, find_user_by_email",
                     created |-> call.result[1], users |-> users,
                     email |-> call.email, context |-> search_context,
                     result |-> find_user_by_email(users, call.email,
                                                   search_context, clock)]
    /\ UNCHANGED <<heap, objs, born, clock, module>>

\* the caller has handled the outcome and drops it
Discard ==
    /\ call # Idle
    /\ call' = Idle
    /\ UNCHANGED <<heap, objs, born, clock, module>>

\* the caller evaluates a dict literal
NewDict ==
    /\ Len(heap) + Len(objs) < MaxObjects
    /\ \E d \in DictLiterals : heap' = Append(heap, d)
    /\ UNCHANGED <<call, objs, born, clock, module>>

\* the caller runs d[key] = val on a dict it holds
SetItem ==
    /\ \E id \in 1..Len(heap) :
         heap' = [heap EXCEPT ![id] = DictSet(heap[id], "extra", PyInt(1))]
    /\ UNCHANGED <<call, objs, born, clock, module>>

\* what an error holds at the moment it is constructed
Snapshot(e) ==
    [e EXCEPT !.context = Contents(e.context), !.metadata = Contents(e.metadata)]

\* what a context or metadata argument holds when the call is made
Given(x) == IF x = None THEN None ELSE Dict(Contents(x))

\* a named constructor fn, called with args, returns the new error e
Construct(fn, args, e) ==
    /\ call = Idle
    /\ Len(heap) + Len(objs) < MaxObjects
    /\ objs' = Append(objs, e)
    /\ born' = Append(born, Snapshot(e))
    /\ call' = [fn |-> fn, obj |-> Len(objs) + 1, args |-> args]
    /\ UNCHANGED <<heap, clock, module>>

\* the arguments of a call of a named constructor
Args(site, message, cause, context, metadata) ==
    [site |-> site, message |-> message, cause |-> cause,
     context |-> Given(context), metadata |-> Given(metadata)]

NewValidationError ==
    \E site \in Sites, message \in MessageArgs,
       context \in DictArgs, metadata \in DictArgs :
        Construct("create_validation_error",
                  Args(site, message, None, context, metadata),
                  create_validation_error(message, context, metadata, clock))

NewNotFoundError ==
    \E site \in Sites, message \in MessageArgs,
       context \in DictArgs, metadata \in DictArgs :
        Construct("create_not_found_error",
                  Args(site, message, None, context, metadata),
                  create_not_found_error(message, context, metadata, clock))

NewIoError ==
    \E site \in Sites, message \in MessageArgs, cause \in CauseArgs,
       context \in DictArgs, metadata \in DictArgs :
        Construct("create_io_error",
                  Args(site, message, cause, context, metadata),
                  create_io_error(message, cause, context, metadata, clock))

NewNetworkError ==
    \E site \in Sites, message \in MessageArgs, cause \in CauseArgs,
       context \in DictArgs, metadata \in DictArgs :
        Construct("create_network_error",
                  Args(site, message, cause, context, metadata),
                  create_network_error(message, cause, context, metadata, clock))

\* the caller constructs an error with PygonError(...) itself, with or
\* without a source_location, leaving the other fields to their defaults
NewPygonError ==
    \E site \in Sites, message \in MessageArgs,
       source_location \in SourceLocationArgs :
        Construct("PygonError",
                  [site |-> site, message |-> message,
                   source_location |-> source_location],
                  PygonError("validation_error", message, Dict(EmptyDict),
                             source_location, Dict(EmptyDict), None, clock,
                             site))

\* the caller renders one of its errors and keeps the text until it drops it
CallToString ==
    /\ call = Idle
    /\ \E i \in 1..Len(objs) :
         call' = [fn |-> "to_string", obj |-> i, result |-> to_string(objs[i])]
    /\ UNCHANGED <<heap, objs, born, clock, module>>

CallStr ==
    /\ call = Idle
    /\ \E i \in 1..Len(objs) :
         call' = [fn |-> "__str__", obj |-> i, result |-> __str__(objs[i])]
    /\ UNCHANGED <<heap, objs, born, clock, module>>

CallToDetailedString ==
    /\ call = Idle
    /\ \E i \in 1..Len(objs) :
         call' = [fn |-> "to_detailed_string", obj |-> i,
                  result |-> to_detailed_string(objs[i])]
    /\ UNCHANGED <<heap, objs, born, clock, module>>

\* the service functions, called one at a time
Next ==
    \/ Tick
    \/ CallValidateEmail
    \/ CallValidateEmailLegacy
    \/ CallValidateUserData
    \/ CallValidateUserDataLegacy
    \/ CallCreateUser
    \/ CallCreateUserLegacy
    \/ CallFindUserByEmail
    \/ CallFindUserByEmailLegacy
    \/ CallFindCreatedUser
    \/ Discard

Spec == Init /\ [][Next]_vars

\* the error objects and the dicts the caller shares with them
NextObjects ==
    \/ Tick
    \/ NewDict
    \/ SetItem
    \/ NewValidationError
    \/ NewNotFoundError
    \/ NewIoError
    \/ NewNetworkError
    \/ NewPygonError
    \/ Discard

SpecObjects == Init /\ [][NextObjects]_vars

\* the caller constructs its first error, with any named constructor
NewError ==
    /\ objs = <<>>
    /\ \/ NewValidationError
       \/ NewNotFoundError
       \/ NewIoError
       \/ NewNetworkError

\* the life of one error: the caller constructs it, renders it, and goes on
\* using its own dicts
NextRender ==
    \/ Tick
    \/ NewDict
    \/ SetItem
    \/ NewError
    \/ CallToString
    \/ CallStr
    \/ CallToDetailedString
    \/ Discard

SpecRender == Init /\ [][NextRender]_vars

---------------------------------------------------------------------------
(* Importing user_service.py and calling its functions *)

\* the top-level statements of user_service.py in execution order: the line
\* each starts at, the module-level names it reads when it is executed (an
\* annotation of a def is evaluated when the def is) and the names it binds
Statements ==
    <<[line |-> 3, uses |-> <<>>, binds |-> <<"dataclass">>],
      [line |-> 4, uses |-> <<>>,
       binds |-> <<"Result", "ValidationResult", "MultipleErrorResult",
                  "LegacyResult", "LegacyValidationResult",
                  "LegacyMultipleErrorResult", "PygonError",
                  "create_validation_error", "create_not_found_error">>],
      [line |-> 11, uses |-> <<"Result", "User">>, binds |-> <<"UserResult">>],
      [line |-> 12, uses |-> <<"Result", "User">>, binds |-> <<"UsersResult">>],
      [line |-> 15, uses |-> <<"LegacyResult", "User">>,
       binds |-> <<"LegacyUserResult">>],
      [line |-> 17, uses |-> <<"dataclass">>, binds |-> <<"User">>],
      [line |-> 23, uses |-> <<"ValidationResult">>, binds |-> <<"validate_email">>],
      [line |-> 66, uses |-> <<"LegacyValidationResult">>,
       binds |-> <<"validate_email_legacy">>],
      [line |-> 81, uses |-> <<"MultipleErrorResult">>,
       binds |-> <<"validate_user_data">>],
      [line |-> 158, uses |-> <<"LegacyMultipleErrorResult">>,
       binds |-> <<"validate_user_data_legacy">>],
      [line |-> 183, uses |-> <<"UserResult">>, binds |-> <<"create_user">>],
      [line |-> 224, uses |-> <<"LegacyUserResult">>,
       binds |-> <<"create_user_legacy">>],
      [line |-> 248, uses |-> <<"User", "UserResult">>,
       binds |-> <<"find_user_by_email">>],
      [line |-> 289, uses |-> <<"User", "LegacyUserResult">>,
       binds |-> <<"find_user_by_email_legacy">>]>>

\* the import has ended: every statement was executed, or one has raised
ImportEnded == module.raised # "" \/ module.pc > Len(Statements)

\* the interpreter executes the next top-level statement: reading a name
\* that is not bound yet raises NameError and ends the import
ExecStatement ==
    /\ ~ImportEnded
    /\ LET st == Statements[module.pc]
       IN  module' =
              IF \A i \in 1..Len(st.uses) : st.uses[i] \in module.names
              THEN [module EXCEPT !.pc = @ + 1,
                                  !.names = @ \cup Range(st.binds)]
              ELSE [module EXCEPT !.raised = "NameError"]
    /\ UNCHANGED <<call, heap, objs, born, clock>>

\* what the function named in request r returns
Invoke(r, now) ==
    CASE r.fn = "validate_email" -> validate_email(r.email, r.context, now)
      [] r.fn = "validate_email_legacy" -> validate_email_legacy(r.email)
      [] r.fn = "validate_user_data" ->
            validate_user_data(r.name, r.email, r.context, now)
      [] r.fn = "validate_user_data_legacy" ->
            validate_user_data_legacy(r.name, r.email)
      [] r.fn = "create_user" -> create_user(r.name, r.email, r.context, now)
      [] r.fn = "create_user_legacy" -> create_user_legacy(r.name, r.email)
      [] r.fn = "find_user_by_email" ->
            find_user_by_email(r.users, r.email, r.context, now)
      [] r.fn = "find_user_by_email_legacy" ->
            find_user_by_email_legacy(r.users, r.email)

\* a program imports user_service and makes the call r of one of its
\* functions: the call returns the function's outcome if the import bound
\* the function, and the import's exception reaches the program otherwise
Attempt(r) ==
    /\ call = Idle
    /\ ImportEnded
    /\ call' = IF r.fn \in module.names /\ module.raised = ""
               THEN [fn |-> r.fn, request |-> r, result |-> Invoke(r, clock)]
               ELSE [fn |-> r.fn, request |-> r, raised |-> module.raised]
    /\ UNCHANGED <<heap, objs, born, clock, module>>

\* the calls a program makes of the functions of user_service
CallService ==
    \/ \E e \in Emails, c \in Labels :
          Attempt([fn |-> "validate_email", email |-> e, context |-> c])
    \/ \E e \in Emails :
          Attempt([fn |-> "validate_email_legacy", email |-> e])
    \/ \E f \in {"validate_user_data", "create_user"},
          n \in Names, e \in Emails, c \in Labels :
          Attempt([fn |-> f, name |-> n, email |-> e, context |-> c])
    \/ \E f \in {"validate_user_data_legacy", "create_user_legacy"},
          n \in Names, e \in Emails :
          Attempt([fn |-> f, name |-> n, email |-> e])
    \/ \E u \in UserLists, e \in Emails, c \in Labels :
          Attempt([fn |-> "find_user_by_email", users |-> u, email |-> e,
                   context |-> c])
    \/ \E u \in UserLists, e \in Emails :
          Attempt([fn |-> "find_user_by_email_legacy", users |-> u,
                   email |-> e])

NextModule ==
    \/ Tick
    \/ ExecStatement
    \/ CallService
    \/ Discard

SpecModule == Init /\ [][NextModule]_vars

----------------------------------------------------------------------------
(* Claims about the outcomes of the service functions (under Spec) *)

\* which function the outcome in `call` came from
Returned(fn) == call.fn = fn

\* C1: an outcome of create_user, find_user_by_email, create_user_legacy or
\* find_user_by_email_legacy holds exactly one of a value and an error; an
\* outcome of validate_email or validate_email_legacy is valid exactly when
\* it holds no error.
C1_OutcomeExactlyOne ==
    /\ call.fn \in {"create_user", "find_user_by_email",
                    "create_user_legacy", "find_user_by_email_legacy"}
         => ((call.result[1] = None) # (call.result[2] = None))
    /\ call.fn \in {"validate_email", "validate_email_legacy"}
         => (call.result[1] <=> (call.result[2] = None))

\* a lookup of a valid email that matches no user of a non-empty list
C1_Witness ==
    /\ Returned("find_user_by_email")
    /\ call.users # <<>>
    /\ HasAt(call.email)
    /\ call.result[1] = None
    /\ call.result[2] # None

\* C2: validate_user_data and validate_user_data_legacy return valid = true
\* if and only if the returned error list is empty.
C2_ValidIffNoErrors ==
    call.fn \in {"validate_user_data", "validate_user_data_legacy"}
        => (call.result[1] <=> (call.result[2] = <<>>))

\* a valid name with an invalid email: the only errors are the email's
C2_Witness ==
    /\ Returned("validate_user_data")
    /\ ~IsEmpty(Strip(call.name))
    /\ Len(call.name) <= MaxNameLen
    /\ ~HasAt(call.email)
    /\ call.result[1] = FALSE
    /\ Len(call.result[2]) = 1

\* the messages of the errors validate_user_data returned
ReturnedMessages == Messages(call.result[2])

\* C3 as stated: every declared check of validate_user_data whose failure
\* condition holds on the input contributes its error, the format check
\* ("@" not in email) included.
C3_EveryFailingCheckContributes ==
    Returned("validate_user_data") =>
        /\ IsEmpty(Strip(call.name))
             => "name is required" \in Range(ReturnedMessages)
        /\ Len(call.name) > MaxNameLen
             => "name must be 50 characters or less" \in Range(ReturnedMessages)
        /\ IsEmpty(call.email)
             => "email is required" \in Range(ReturnedMessages)
        /\ ~HasAt(call.email)
             => "invalid email format" \in Range(ReturnedMessages)

\* C3 amended: the name-required, name-length and email-required checks each
\* contribute their error whenever their failure condition holds; the email
\* format check contributes its error exactly when the email is non-empty
\* and holds no "@" (it is not run on an empty email).
C3_ChecksContributeFormatOnlyIfNonEmpty ==
    Returned("validate_user_data") =>
        /\ IsEmpty(Strip(call.name))
             => "name is required" \in Range(ReturnedMessages)
        /\ Len(call.name) > MaxNameLen
             => "name must be 50 characters or less" \in Range(ReturnedMessages)
        /\ IsEmpty(call.email)
             => "email is required" \in Range(ReturnedMessages)
        /\ (~IsEmpty(call.email) /\ ~HasAt(call.email))
             <=> "invalid email format" \in Range(ReturnedMessages)

\* a blank name over the length limit: both name checks fail at once
C3_Witness ==
    /\ Returned("validate_user_data")
    /\ IsEmpty(Strip(call.name))
    /\ Len(call.name) > MaxNameLen
    /\ "name is required" \in Range(ReturnedMessages)
    /\ "name must be 50 characters or less" \in Range(ReturnedMessages)

\* the messages of the four checks in the order the code declares them
DeclaredOrder ==
    <<"name is required", "name must be 50 characters or less",
      "email is required", "invalid email format">>

\* the declared order cut down to the messages of msgs
InDeclaredOrder(msgs) ==
    LET Occurs(m) == m \in Range(msgs) IN SelectSeq(DeclaredOrder, Occurs)

\* C4: the errors of validate_user_data come in the declared check order with
\* none repeated, and name = "" with email = "" gives exactly 'name is
\* required' then 'email is required'.
C4_ErrorsInDeclaredOrder ==
    Returned("validate_user_data") =>
        /\ ReturnedMessages = InDeclaredOrder(ReturnedMessages)
        /\ (call.name = <<>> /\ call.email = <<>>)
             => ReturnedMessages = <<"name is required", "email is required">>

\* three errors at once: blank over-long name and an email with no "@"
C4_Witness ==
    /\ Returned("validate_user_data")
    /\ ReturnedMessages = <<"name is required",
                            "name must be 50 characters or less",
                            "invalid email format">>

\* C6: for a non-empty email that holds "@", validate_email returns
\* (True, None), whatever the field_name.
C6_ValidEmailSucceeds ==
    (Returned("validate_email") /\ ~IsEmpty(call.email) /\ HasAt(call.email))
        => call.result = <<TRUE, None>>

\* the email "@" validated under a field name other than the default
C6_Witness ==
    /\ Returned("validate_email")
    /\ call.email = <<"@">>
    /\ call.field_name # "email"
    /\ call.result[1] = TRUE

\* C7: for the empty email validate_email returns False with an error of
\* category validation_error and message "email is required".
C7_EmptyEmailIsRequired ==
    (Returned("validate_email") /\ call.email = <<>>) =>
        /\ call.result[1] = FALSE
        /\ call.result[2] # None
        /\ call.result[2].error_type = "validation_error"
        /\ call.result[2].message = "email is required"

\* the empty email has been validated and refused
C7_Witness ==
    /\ Returned("validate_email")
    /\ call.email = <<>>
    /\ call.result[1] = FALSE

\* C8 as stated: for every string without "@", the empty one included,
\* validate_email fails with category validation_error and message
\* "invalid email format".
C8_NoAtIsInvalidFormat ==
    (Returned("validate_email") /\ ~HasAt(call.email)) =>
        /\ call.result[1] = FALSE
        /\ call.result[2] # None
        /\ call.result[2].error_type = "validation_error"
        /\ call.result[2].message = "invalid email format"

\* C8 amended: for every non-empty string without "@", validate_email fails
\* with category validation_error and message "invalid email format".
C8_NonEmptyNoAtIsInvalidFormat ==
    (Returned("validate_email") /\ ~IsEmpty(call.email) /\ ~HasAt(call.email)) =>
        /\ call.result[1] = FALSE
        /\ call.result[2] # None
        /\ call.result[2].error_type = "validation_error"
        /\ call.result[2].message = "invalid email format"

\* a non-empty email of letters and blanks only has been refused
C8_Witness ==
    /\ Returned("validate_email")
    /\ Len(call.email) = MaxLen
    /\ ~HasAt(call.email)
    /\ call.result[2] # None

\* whether the error object e is kept inside the error w: as its cause, or as
\* a value (or an element of a list value) of its context or metadata
Wraps(w, e) ==
    \/ w.cause = e
    \/ \E d \in {Contents(w.context), Contents(w.metadata)} :
         \E i \in 1..Len(d) :
            \/ d[i].v = e
            \/ "list" \in DOMAIN d[i].v /\ e \in Range(d[i].v.list)

\* C10: when create_user fails, every error validate_user_data returned is
\* kept, with its context and metadata, inside the error create_user returns.
C10_LowerErrorsPreserved ==
    (Returned("create_user") /\ call.result[2] # None) =>
        \A e \in Range(validate_user_data(call.name, call.email, call.context,
                                          call.result[2].timestamp)[2]) :
            Wraps(call.result[2], e)

---------------------------------------------------------------------------
(* Claims about error objects (under SpecObjects) *)

\* C9: once a PygonError is constructed, the contents of its fields never
\* change, whatever the caller does afterwards with the dicts it passed as
\* context or metadata.
C9_ErrorContentsNeverChange ==
    \A i \in 1..Len(objs) : Snapshot(objs[i]) = born[i]

---------------------------------------------------------------------------
(* Claims about the legacy functions (under Spec) *)

\* an outcome with its error, if any, replaced by its to_string() text
ToLegacy(outcome) ==
    <<outcome[1],
      IF outcome[2] = None THEN None ELSE PyStr(to_string(outcome[2]))>>

\* a multi-error outcome with each error replaced by its to_string() text
ToLegacyList(outcome) ==
    <<outcome[1], [i \in 1..Len(outcome[2]) |-> to_string(outcome[2][i])]>>

\* C11: validate_email_legacy, validate_user_data_legacy and
\* find_user_by_email_legacy return, on every input, the flag or value of
\* their rich counterpart and, for each rich error, its to_string() text, in
\* the same order (whatever label the rich function is given).
C11_LegacyIsProjection ==
    /\ Returned("validate_email_legacy") =>
         \A f \in Labels :
            call.result = ToLegacy(validate_email(call.email, f, clock))
    /\ Returned("validate_user_data_legacy") =>
         \A c \in Labels :
            call.result =
                ToLegacyList(validate_user_data(call.name, call.email, c, clock))
    /\ Returned("find_user_by_email_legacy") =>
         \A c \in Labels :
            call.result =
                ToLegacy(find_user_by_email(call.users, call.email, c, clock))

\* a legacy lookup refused an email with no "@" in a non-empty list
C11_Witness ==
    /\ Returned("find_user_by_email_legacy")
    /\ call.users # <<>>
    /\ ~IsEmpty(call.email)
    /\ ~HasAt(call.email)
    /\ call.result = <<None, PyStr("validation_error: invalid email format")>>

----------------------------------------------------------------------------
(* Claims about rendering (under SpecRender) and construction (under
   SpecObjects) *)

\* the call the caller last made returned from fn
Rendered(fn) == call.fn = fn /\ "result" \in DOMAIN call

\* e with one field other than error_type and message replaced
OtherFields(e) ==
    {[e EXCEPT !.context = Dict(c)] : c \in DictLiterals}
    \cup {[e EXCEPT !.metadata = Dict(m)] : m \in DictLiterals}
    \cup {[e EXCEPT !.cause = x] : x \in CauseArgs}
    \cup {[e EXCEPT !.timestamp = t] : t \in 0..MaxClock}
    \cup {[e EXCEPT !.source_location = ""]}

\* C12: to_string() and str() of an error return exactly
\* "<category>: <message>", and the same text for the error with its context,
\* metadata, cause, timestamp or source location replaced.
C12_ToStringIsCategoryAndMessage ==
    (Rendered("to_string") \/ Rendered("__str__")) =>
        /\ call.result =
               objs[call.obj].error_type \o ": " \o objs[call.obj].message
        /\ \A e \in OtherFields(objs[call.obj]) :
               /\ to_string(e) = call.result
               /\ __str__(e) = call.result

\* str() of an I/O error that has a message, a context and a cause was taken
C12_Witness ==
    /\ Rendered("__str__")
    /\ objs[call.obj].error_type = "io_error"
    /\ objs[call.obj].message # ""
    /\ Contents(objs[call.obj].context) # EmptyDict
    /\ objs[call.obj].cause # None

\* the seven segments in the stated order, each with whether it is present
StatedSegments(e) ==
    <<[on |-> TRUE, text |-> "Error: " \o e.error_type],
      [on |-> TRUE, text |-> "Message: " \o e.message],
      [on |-> TRUE, text |-> "Timestamp: " \o ToString(e.timestamp)],
      [on |-> TRUE, text |-> "Source: " \o e.source_location],
      [on |-> Len(Contents(e.context)) > 0,
       text |-> "Context: " \o ReprDict(Contents(e.context))],
      [on |-> Len(Contents(e.metadata)) > 0,
       text |-> "Metadata: " \o ReprDict(Contents(e.metadata))],
      [on |-> e.cause # None,
       text |-> IF e.cause # None THEN "Cause: " \o e.cause.text ELSE ""]>>

\* the texts of the segments that are present, in order
PresentTexts(segments) ==
    LET present == SelectSeq(segments, LAMBDA s : s.on)
    IN  [i \in 1..Len(present) |-> present[i].text]

\* C13: every call of to_detailed_string() returns the segments Error,
\* Message, Timestamp, Source, Context, Metadata, Cause joined with " | " in
\* that order, the first four always, and Context, Metadata and Cause exactly
\* when the context is non-empty, the metadata is non-empty and a cause is
\* set.
C13_DetailedSegmentsInOrder ==
    [][(call = Idle /\ call'.fn = "to_detailed_string") =>
         call'.result =
            Join(" | ", PresentTexts(StatedSegments(objs[call'.obj])))]_vars

\* to_detailed_string() was taken of an error with context, metadata and cause
C13_Witness ==
    /\ Rendered("to_detailed_string")
    /\ Contents(objs[call.obj].context) # EmptyDict
    /\ Contents(objs[call.obj].metadata) # EmptyDict
    /\ objs[call.obj].cause # None
    /\ call.result = to_detailed_string(objs[call.obj])

\* C14: a text the caller holds from an earlier call of to_string(), str() or
\* to_detailed_string() is the text the same call on the same error returns
\* now, whatever was done in between, and no error's timestamp differs from
\* the one it was constructed with.
C14_RenderingRepeats ==
    /\ Rendered("to_string") => call.result = to_string(objs[call.obj])
    /\ Rendered("__str__") => call.result = __str__(objs[call.obj])
    /\ Rendered("to_detailed_string") =>
         call.result = to_detailed_string(objs[call.obj])
    /\ \A i \in 1..Len(objs) : objs[i].timestamp = born[i].timestamp

\* the call the caller last made constructed an error
Constructed == "args" \in DOMAIN call

\* the mapping an error holds for a given argument
GivenOrEmpty(x) == IF x = None THEN EmptyDict ELSE Contents(x)

\* C15: the error a named constructor returns has the constructor's category,
\* the given message, as context and as metadata the given mapping or an
\* empty mapping (never None) when None is given, and as cause the given
\* cause for create_io_error and create_network_error and None for
\* create_validation_error and create_not_found_error.
C15_ConstructorsFillFields ==
    (Constructed /\ call.fn # "PygonError") =>
        LET e == born[call.obj]
            a == call.args
        IN  /\ e.error_type =
                   (CASE call.fn = "create_validation_error" -> "validation_error"
                      [] call.fn = "create_not_found_error" -> "not_found_error"
                      [] call.fn = "create_io_error" -> "io_error"
                      [] call.fn = "create_network_error" -> "network_error")
            /\ e.message = a.message
            /\ e.context = GivenOrEmpty(a.context)
            /\ e.metadata = GivenOrEmpty(a.metadata)
            /\ objs[call.obj].context # None
            /\ objs[call.obj].metadata # None
            /\ e.cause =
                   (IF call.fn \in {"create_io_error", "create_network_error"}
                    THEN a.cause ELSE None)

\* create_io_error was given a cause, None as context and a non-empty metadata
C15_Witness ==
    /\ Constructed
    /\ call.fn = "create_io_error"
    /\ call.args.cause # None
    /\ call.args.context = None
    /\ call.args.metadata # None
    /\ Contents(call.args.metadata) # EmptyDict

\* C16: every error that exists has a non-empty message.
C16_MessageNeverEmpty ==
    \A i \in 1..Len(objs) : objs[i].message # ""

----------------------------------------------------------------------------
(* Claims about the lookup (under Spec) *)

\* the value mapping d holds for key
ValueAt(d, key) == d[CHOOSE i \in 1..Len(d) : d[i].k = key].v

\* email passes validate_email: it is non-empty and contains "@"
ValidEmail(email) == email # <<>> /\ \E i \in 1..Len(email) : email[i] = "@"

\* some user's email is the searched email in lower case
SomeUserMatches(users, email) ==
    \E i \in 1..Len(users) : users[i].email = Lower(email)

\* C17: when the email is valid and no user of the list has the searched
\* email (compared as the lookup compares: the user's email with the searched
\* email in lower case; this includes every list where no email is equal to
\* it ignoring case), find_user_by_email returns no user and a
\* not_found_error whose context total_users_searched is the length of the
\* list and whose metadata available_emails is the users' emails in list
\* order.
C17_NotFoundReportsTheList ==
    (/\ Returned("find_user_by_email")
     /\ ValidEmail(call.email)
     /\ ~SomeUserMatches(call.users, call.email)) =>
        /\ call.result[1] = None
        /\ call.result[2] # None
        /\ call.result[2].error_type = "not_found_error"
        /\ ValueAt(Contents(call.result[2].context), "total_users_searched")
              = PyInt(Len(call.users))
        /\ ValueAt(Contents(call.result[2].metadata), "available_emails")
              = PyList([i \in 1..Len(call.users) |-> PyTxt(call.users[i].email)])

\* an email was not found among two users with different emails
C17_Witness ==
    /\ Returned("find_user_by_email")
    /\ ValidEmail(call.email)
    /\ Len(call.users) = 2
    /\ call.users[1].email # call.users[2].email
    /\ ~SomeUserMatches(call.users, call.email)
    /\ call.result[2] # None
    /\ call.result[2].error_type = "not_found_error"

\* C19: when the email is empty or has no "@", find_user_by_email returns no
\* user and exactly the error validate_email(email, "search_email") produces,
\* whatever the list and the search context are; the error is never a
\* not_found_error.
C19_ValidatesBeforeSearching ==
    (Returned("find_user_by_email") /\ ~ValidEmail(call.email)) =>
        /\ call.result[1] = None
        /\ call.result[2] # None
        /\ call.result[2] =
               validate_email(call.email, "search_email",
                              call.result[2].timestamp)[2]
        /\ call.result[2].error_type = "validation_error"

\* an email with no "@" was looked up in a non-empty list
C19_Witness ==
    /\ Returned("find_user_by_email")
    /\ call.email # <<>>
    /\ ~ValidEmail(call.email)
    /\ call.users # <<>>
    /\ call.result[2] # None
    /\ call.result[2].error_type = "validation_error"

\* the first user of the list whose email equals the searched one ignoring case
FirstIgnoringCase(users, email) ==
    users[CHOOSE i \in 1..Len(users) :
            /\ Lower(users[i].email) = Lower(email)
            /\ \A j \in 1..(i - 1) : Lower(users[j].email) # Lower(email)]

\* C20: when the email is valid and some user's email equals it ignoring
\* letter case, find_user_by_email returns the first such user and no error.
C20_LookupIgnoresCase ==
    (/\ Returned("find_user_by_email")
     /\ ValidEmail(call.email)
     /\ \E i \in 1..Len(call.users) :
            Lower(call.users[i].email) = Lower(call.email)) =>
        call.result = <<FirstIgnoringCase(call.users, call.email), None>>

----------------------------------------------------------------------------
(* Claims about calling the service (under SpecModule) *)

\* C18: every call a program makes of validate_email, validate_user_data,
\* create_user, find_user_by_email or of their legacy variants, with any
\* strings and any list of users, returns an outcome and raises nothing.
C18_EveryCallReturns ==
    "request" \in DOMAIN call =>
        /\ "result" \in DOMAIN call
        /\ "raised" \notin DOMAIN call

----------------------------------------------------------------------------
(* Claims about user creation (under Spec) *)

\* name and email pass every check of validate_user_data: the name is not
\* blank once stripped and has at most 50 characters as given, the email is
\* non-empty and contains "@"
Acceptable(name, email) ==
    /\ \E i \in 1..Len(name) : name[i] # " "
    /\ Len(name) <= MaxNameLen
    /\ ValidEmail(email)

\* C21: create_user returns a user and no error exactly when the name and
\* the email pass the checks, which is exactly when validate_user_data says
\* valid; the user then has the name without its surrounding blanks and the
\* email in lower case; otherwise it returns no user.
C21_CreatesExactlyWhenValid ==
    Returned("create_user") =>
        /\ Acceptable(call.name, call.email)
              <=> validate_user_data(call.name, call.email, call.context, clock)[1]
        /\ Acceptable(call.name, call.email) =>
              /\ call.result[2] = None
              /\ call.result[1] # None
              /\ call.result[1].name = Strip(call.name)
              /\ call.result[1].email = Lower(call.email)
        /\ ~Acceptable(call.name, call.email) =>
              /\ call.result[1] = None
              /\ call.result[2] # None

\* a user was created from a name with a leading blank and an email with an
\* upper-case letter
C21_Witness ==
    /\ Returned("create_user")
    /\ call.name = <<" ", "a">>
    /\ call.email = <<"A", "@">>
    /\ call.result = <<User(1, <<"a">>, <<"a", "@">>), None>>

\* the messages m[1], ..., m[n] written one after the other with ", " between
RECURSIVE CommaList(_)
CommaList(m) ==
    IF Len(m) = 0 THEN ""
    ELSE IF Len(m) = 1 THEN m[1]
    ELSE CommaList(SubSeq(m, 1, Len(m) - 1)) \o ", " \o m[Len(m)]

\* C22: the error create_user returns when it fails has category
\* validation_error, the message "User creation failed: " followed by the
\* messages of all the errors of validate_user_data, in their order, with
\* ", " between them, the number of those errors as context
\* validation_error_count, and "<category>: <message>" of each of them, in
\* the same order, as metadata validation_errors.
C22_CreationErrorSumsUp ==
    (Returned("create_user") /\ call.result[2] # None) =>
        LET e == call.result[2]
            v == validate_user_data(call.name, call.email, call.context,
                                    e.timestamp)[2]
        IN  /\ call.result[1] = None
            /\ e.error_type = "validation_error"
            /\ e.message =
                  "User creation failed: "
                      \o CommaList([i \in 1..Len(v) |-> v[i].message])
            /\ ValueAt(Contents(e.context), "validation_error_count")
                  = PyInt(Len(v))
            /\ ValueAt(Contents(e.metadata), "validation_errors")
                  = PyList([i \in 1..Len(v) |->
                              PyStr(v[i].error_type \o ": " \o v[i].message)])

\* create_user failed on three validation errors
C22_Witness ==
    /\ Returned("create_user")
    /\ call.result[2] # None
    /\ ValueAt(Contents(call.result[2].context), "validation_error_count")
          = PyInt(3)
    /\ call.result[2].message =
          "User creation failed: name is required, "
              \o "name must be 50 characters or less, email is required"

\* C23: create_user_legacy returns what create_user returns on the same name
\* and email, with the error, if any, replaced by its to_string() text: both
\* return the same user or both fail, and the legacy error string is
\* "<category>: <message>" of the rich error, whatever context create_user
\* is given.
C23_LegacyCreateIsProjection ==
    Returned("create_user_legacy") =>
        \A c \in Labels :
            call.result = ToLegacy(create_user(call.name, call.email, c, clock))

\* C24: an error constructed with a non-empty source_location keeps it, and
\* an error constructed without one, by PygonError(...) or by a named
\* constructor, has as source_location the line of the caller's program that
\* asked for the error.
C24_OriginIsTheCallSite ==
    Constructed =>
        born[call.obj].source_location =
            (IF "source_location" \in DOMAIN call.args
                    /\ call.args.source_location # ""
             THEN call.args.source_location
             ELSE call.args.site)

\* C25: when the caller searches, for the email it created the user u with,
\* a list that holds u and in which no user before u has the same email in
\* lower case, find_user_by_email returns u and no error.
C25_CreatedUserIsFound ==
    Returned("create_user, find_user_by_email") =>
        \A i \in 1..Len(call.users) :
            (/\ call.users[i] = call.created
             /\ \A j \in 1..(i - 1) :
                    Lower(call.users[j].email) # Lower(call.email))
                => call.result = <<call.created, None>>

\* a user created from an email with an upper-case letter was found behind a
\* user with another email
C25_Witness ==
    /\ Returned("create_user, find_user_by_email")
    /\ call.email = <<"A", "@">>
    /\ Len(call.users) = 2
    /\ call.users[1].email = <<"@">>
    /\ call.users[2] = call.created
    /\ call.result = <<call.created, None>>
====
